---- MODULE Spec2Model ----
\* A model of the YOLO detection library: the C entry points of ffi_bridge.cpp
\* over the process-wide detector, and YoloDetector (yolo_detector.cpp).
\*
\* Text is modelled as sequences of tokens: a tensor name is a sequence of words
\* (std::string::find of a word is membership of the word), a JSON text is a
\* sequence of characters, a class label is the sequence of its characters.
\* Real numbers are fixed-point integers in units of 1/Q.
EXTENDS Integers, Sequences, FiniteSets, TLC

VARIABLES
    g_detector,   \* the global YoloDetector* : NULL or an address
    heap,         \* the live YoloDetector objects: address -> fields
    ret,          \* the last call of the bridge: its inputs and what it returned
    hist,         \* history of the calls so far (what the claims speak about)
    calls         \* the decode call each thread is in: thread -> position

vars == <<g_detector, heap, ret, hist, calls>>

-----------------------------------------------------------------------------
\* Bounds of the model

\* number of labels of a class list passed to yolo_set_classes
MaxLabels == 2
\* number of output tensors of a model in the VariantDetector specification
MaxOutputs == 2

-----------------------------------------------------------------------------
\* Program constants

NULL == 0
DefaultInputSize == 640
DefaultNumClasses == 80
PPYOLOEFeatures == 6
YOLOXFeatures == 85
YOLOV8Features == 84
BoxAndObjFields == 5
BoxFields == 4

\* the storage of the one detector: yolo_init deletes the detector it finds
\* before it allocates the next
Addrs == {1}

COCO_CLASSES ==
    << <<"person">>, <<"bicycle">>, <<"car">>, <<"motorcycle">>, <<"airplane">>,
       <<"bus">>, <<"train">>, <<"truck">>, <<"boat">>, <<"traffic light">>,
       <<"fire hydrant">>, <<"stop sign">>, <<"parking meter">>, <<"bench">>,
       <<"bird">>, <<"cat">>, <<"dog">>, <<"horse">>, <<"sheep">>, <<"cow">>,
       <<"elephant">>, <<"bear">>, <<"zebra">>, <<"giraffe">>, <<"backpack">>,
       <<"umbrella">>, <<"handbag">>, <<"tie">>, <<"suitcase">>, <<"frisbee">>,
       <<"skis">>, <<"snowboard">>, <<"sports ball">>, <<"kite">>,
       <<"baseball bat">>, <<"baseball glove">>, <<"skateboard">>,
       <<"surfboard">>, <<"tennis racket">>, <<"bottle">>, <<"wine glass">>,
       <<"cup">>, <<"fork">>, <<"knife">>, <<"spoon">>, <<"bowl">>, <<"banana">>,
       <<"apple">>, <<"sandwich">>, <<"orange">>, <<"broccoli">>, <<"carrot">>,
       <<"hot dog">>, <<"pizza">>, <<"donut">>, <<"cake">>, <<"chair">>,
       <<"couch">>, <<"potted plant">>, <<"bed">>, <<"dining table">>,
       <<"toilet">>, <<"tv">>, <<"laptop">>, <<"mouse">>, <<"remote">>,
       <<"keyboard">>, <<"cell phone">>, <<"microwave">>, <<"oven">>,
       <<"toaster">>, <<"sink">>, <<"refrigerator">>, <<"book">>, <<"clock">>,
       <<"vase">>, <<"scissors">>, <<"teddy bear">>, <<"hair drier">>,
       <<"toothbrush">> >>

-----------------------------------------------------------------------------
\* The models the inference engine can be asked to load (the engine and the
\* model files are external: these are the inputs of yolo_init).

Tensor(name, shape) == [name |-> name, shape |-> shape]

OnnxModel(inputs, outputs) == [loadable |-> TRUE, inputs |-> inputs, outputs |-> outputs]

\* a path the engine cannot load: Ort::Session's constructor throws
NoModel == [loadable |-> FALSE, inputs |-> <<>>, outputs |-> <<>>]

ModelFiles == {"missing.onnx", "yolox.onnx", "ppyoloe.onnx", "custom.onnx"}

\* with the models of 80 and more classes
AllModelFiles ==
    ModelFiles \cup {"ppyoloe_plain.onnx", "yolox_wide.onnx", "yolov8.onnx",
                     "ppyoloe_swapped.onnx", "ppyoloe_x.onnx", "ppyoloe_t.onnx",
                     "yolox_tall.onnx", "flat.onnx", "yolox_t.onnx"}

ModelAt(model_path) ==
    CASE model_path = "yolox.onnx" ->
           OnnxModel(<<Tensor(<<"images">>, <<1, 3, 32, 32>>)>>,
                     <<Tensor(<<"output">>, <<1, 21, 7>>)>>)
      [] model_path = "yolox_wide.onnx" ->
           OnnxModel(<<Tensor(<<"images">>, <<1, 3, 80, 80>>)>>,
                     <<Tensor(<<"output">>, <<1, 129, 90>>)>>)
      [] model_path = "yolov8.onnx" ->
           OnnxModel(<<Tensor(<<"images">>, <<1, 3, 16, 32>>)>>,
                     <<Tensor(<<"output0">>, <<1, 84, -1>>)>>)
      [] model_path = "ppyoloe.onnx" ->
           OnnxModel(<<Tensor(<<"image">>, <<-1, 3, 16, 16>>),
                       Tensor(<<"scale", "_factor">>, <<-1, 2>>)>>,
                     <<Tensor(<<"multiclass_nms3_0.tmp_0">>, <<-1, 6>>),
                       Tensor(<<"multiclass_nms3_0.tmp_2">>, <<-1>>)>>)
      [] model_path = "ppyoloe_plain.onnx" ->
           OnnxModel(<<Tensor(<<"x">>, <<1, 3, -1, -1>>)>>,
                     <<Tensor(<<"dets">>, <<1, 3, 6>>)>>)
      [] model_path = "custom.onnx" ->
           OnnxModel(<<Tensor(<<"input">>, <<1, 3, 8, 8>>)>>,
                     <<Tensor(<<"out">>, <<1, 5, 8>>)>>)
      [] model_path = "ppyoloe_swapped.onnx" ->
           OnnxModel(<<Tensor(<<"scale", "_factor">>, <<-1, 2>>),
                       Tensor(<<"image">>, <<-1, 3, 16, 16>>)>>,
                     <<Tensor(<<"multiclass_nms3_0.tmp_0">>, <<-1, 6>>)>>)
      [] model_path = "ppyoloe_x.onnx" ->
           OnnxModel(<<Tensor(<<"x">>, <<-1, 3, 16, 16>>),
                       Tensor(<<"scale", "_factor">>, <<-1, 2>>)>>,
                     <<Tensor(<<"multiclass_nms3_0.tmp_0">>, <<-1, 6>>)>>)
      [] model_path = "ppyoloe_t.onnx" ->
           OnnxModel(<<Tensor(<<"image">>, <<1, 3, 16, 16>>)>>,
                     <<Tensor(<<"dets">>, <<1, 6, 2>>)>>)
      [] model_path = "yolox_tall.onnx" ->
           OnnxModel(<<Tensor(<<"images">>, <<1, 3, 64, 32>>)>>,
                     <<Tensor(<<"output">>, <<1, 42, 7>>)>>)
      [] model_path = "yolox_t.onnx" ->
           OnnxModel(<<Tensor(<<"images">>, <<1, 3, 32, 32>>)>>,
                     <<Tensor(<<"output">>, <<1, 7, 21>>)>>)
      [] model_path = "flat.onnx" ->
           OnnxModel(<<Tensor(<<"images">>, <<1, 3, 32, 32>>)>>,
                     <<Tensor(<<"output">>, <<6>>)>>)
      [] OTHER -> NoModel

-----------------------------------------------------------------------------
\* YoloDetector: construction, release, init

NoSession == ""

YoloDetectorCtor ==
    [ m_initialized      |-> FALSE,
      m_input_width      |-> DefaultInputSize,
      m_input_height     |-> DefaultInputSize,
      m_num_classes      |-> DefaultNumClasses,
      m_model_type       |-> "YOLOX",
      m_class_names      |-> COCO_CLASSES,
      m_session          |-> NoSession,
      m_input_names_str  |-> <<>>,
      m_output_names_str |-> <<>> ]

DetectorRelease(d) ==
    [d EXCEPT !.m_session = NoSession, !.m_initialized = FALSE]

\* name_str.find(word) != std::string::npos
Contains(name, word) == \E i \in 1..Len(name) : name[i] = word

\* one pass of the input loop of init: [det, has_scale_factor_input]
ScanInput(acc, input) ==
    LET d == [acc.det EXCEPT !.m_input_names_str = Append(@, input.name)]
        shape == input.shape
    IN  IF Contains(input.name, "scale")
        THEN [det |-> d, has_scale |-> TRUE]
        ELSE [det |->
                IF Len(shape) = 4
                THEN [d EXCEPT
                        !.m_input_height = IF shape[3] > 0 THEN shape[3] ELSE @,
                        !.m_input_width  = IF shape[4] > 0 THEN shape[4] ELSE @]
                ELSE d,
              has_scale |-> acc.has_scale]

RECURSIVE ScanInputs(_, _, _)
ScanInputs(acc, inputs, i) ==
    IF i > Len(inputs) THEN acc
    ELSE ScanInputs(ScanInput(acc, inputs[i]), inputs, i + 1)

\* faulty variant: the 84 test ahead of the 85 test
ClassifyOutput_84First(d, shape) ==
    LET dim1 == IF Len(shape) > 1 THEN shape[2] ELSE 0
        dim2 == IF Len(shape) > 2 THEN shape[3] ELSE 0
        features == IF dim1 < dim2 THEN dim1 ELSE dim2
    IN  IF d.m_model_type = "PPYOLOE" THEN d
        ELSE IF Len(shape) >= 2
        THEN IF dim1 = PPYOLOEFeatures \/ dim2 = PPYOLOEFeatures
             THEN [d EXCEPT !.m_model_type = "PPYOLOE",
                            !.m_num_classes = DefaultNumClasses]
             ELSE IF dim1 = YOLOV8Features \/ dim2 = YOLOV8Features
             THEN [d EXCEPT !.m_model_type = "YOLOV8",
                            !.m_num_classes = DefaultNumClasses]
             ELSE IF dim2 = YOLOXFeatures \/ dim1 = YOLOXFeatures
             THEN [d EXCEPT !.m_model_type = "YOLOX",
                            !.m_num_classes = DefaultNumClasses]
             ELSE IF features > BoxAndObjFields
             THEN [d EXCEPT !.m_model_type = "YOLOX",
                            !.m_num_classes = features - BoxAndObjFields]
             ELSE IF features > 0
             THEN [d EXCEPT !.m_model_type = "YOLOV8",
                            !.m_num_classes = features - BoxFields]
             ELSE d
        ELSE d

\* faulty variant: the generic branch without its test features > 0
ClassifyOutput_NoPositiveTest(d, shape) ==
    LET dim1 == IF Len(shape) > 1 THEN shape[2] ELSE 0
        dim2 == IF Len(shape) > 2 THEN shape[3] ELSE 0
        features == IF dim1 < dim2 THEN dim1 ELSE dim2
    IN  IF d.m_model_type = "PPYOLOE" THEN d
        ELSE IF Len(shape) >= 2
        THEN IF dim1 = PPYOLOEFeatures \/ dim2 = PPYOLOEFeatures
             THEN [d EXCEPT !.m_model_type = "PPYOLOE",
                            !.m_num_classes = DefaultNumClasses]
             ELSE IF dim2 = YOLOXFeatures \/ dim1 = YOLOXFeatures
             THEN [d EXCEPT !.m_model_type = "YOLOX",
                            !.m_num_classes = DefaultNumClasses]
             ELSE IF dim1 = YOLOV8Features \/ dim2 = YOLOV8Features
             THEN [d EXCEPT !.m_model_type = "YOLOV8",
                            !.m_num_classes = DefaultNumClasses]
             ELSE IF features > BoxAndObjFields
             THEN [d EXCEPT !.m_model_type = "YOLOX",
                            !.m_num_classes = features - BoxAndObjFields]
             ELSE [d EXCEPT !.m_model_type = "YOLOV8",
                            !.m_num_classes = features - BoxFields]
        ELSE d

\* the model-type detection of one output shape
ClassifyOutput(d, shape) ==
    LET dim1 == IF Len(shape) > 1 THEN shape[2] ELSE 0
        dim2 == IF Len(shape) > 2 THEN shape[3] ELSE 0
        features == IF dim1 < dim2 THEN dim1 ELSE dim2
    IN  IF d.m_model_type = "PPYOLOE" THEN d
        ELSE IF Len(shape) >= 2
        THEN IF dim1 = PPYOLOEFeatures \/ dim2 = PPYOLOEFeatures
             THEN [d EXCEPT !.m_model_type = "PPYOLOE",
                            !.m_num_classes = DefaultNumClasses]
             ELSE IF dim2 = YOLOXFeatures \/ dim1 = YOLOXFeatures
             THEN [d EXCEPT !.m_model_type = "YOLOX",
                            !.m_num_classes = DefaultNumClasses]
             ELSE IF dim1 = YOLOV8Features \/ dim2 = YOLOV8Features
             THEN [d EXCEPT !.m_model_type = "YOLOV8",
                            !.m_num_classes = DefaultNumClasses]
             ELSE IF features > BoxAndObjFields
             THEN [d EXCEPT !.m_model_type = "YOLOX",
                            !.m_num_classes = features - BoxAndObjFields]
             ELSE IF features > 0
             THEN [d EXCEPT !.m_model_type = "YOLOV8",
                            !.m_num_classes = features - BoxFields]
             ELSE d
        ELSE d

\* one pass of the output loop of init
ScanOutput(d, output) ==
    ClassifyOutput([d EXCEPT !.m_output_names_str = Append(@, output.name)],
                   output.shape)

\* the detector after each pass of the output loop, in order
RECURSIVE ScanOutputs(_, _, _)
ScanOutputs(d, outputs, i) ==
    IF i > Len(outputs) THEN <<>>
    ELSE LET n == ScanOutput(d, outputs[i])
         IN  <<n>> \o ScanOutputs(n, outputs, i + 1)

\* faulty variant: m_initialized set before the call that throws
InitFailed_Initialized(d) ==
    [det |-> [d EXCEPT !.m_initialized = TRUE], ok |-> FALSE, before |-> d, scan |-> <<>>]

\* init returning false from its catch blocks: m_initialized is not set
InitFailed(d) == [det |-> d, ok |-> FALSE, before |-> d, scan |-> <<>>]

\* YoloDetector::init on detector d, where model is what the engine finds at
\* model_path: [det, ok, before, scan]; before is the detector as the output
\* loop finds it, scan the detector after each output
DetectorInit(d, model_path, model) ==
    IF ~model.loadable THEN InitFailed(d)
    ELSE
    LET s  == [d EXCEPT !.m_session = model_path]
        in == ScanInputs([det |-> s, has_scale |-> FALSE], model.inputs, 1)
        b  == IF in.has_scale
              THEN [in.det EXCEPT !.m_model_type = "PPYOLOE",
                                  !.m_num_classes = DefaultNumClasses]
              ELSE in.det
        scan == ScanOutputs(b, model.outputs, 1)
        e  == IF scan = <<>> THEN b ELSE scan[Len(scan)]
    IN  [det |-> [e EXCEPT !.m_initialized = TRUE], ok |-> TRUE,
         before |-> b, scan |-> scan]

\* faulty variant: the detector rebuilt from its defaults around the new names
SetClassNames_Rebuilds(d, names) ==
    [YoloDetectorCtor EXCEPT !.m_class_names = names, !.m_num_classes = Len(names),
                             !.m_initialized = d.m_initialized,
                             !.m_session = d.m_session]

\* YoloDetector::setClassNames
SetClassNames(d, names) ==
    [d EXCEPT !.m_class_names = names, !.m_num_classes = Len(names)]

-----------------------------------------------------------------------------
\* The heap of detector objects

Live(h, a) == a \in DOMAIN h

\* new YoloDetector() at address a holding fields d
New(h, a, d) == [x \in DOMAIN h \cup {a} |-> IF x = a THEN d ELSE h[x]]

\* delete: the destructor runs release() and the storage goes away
Delete(h, a) == [x \in DOMAIN h \ {a} |-> h[x]]

Store(h, a, d) == [h EXCEPT ![a] = d]

-----------------------------------------------------------------------------
\* yolo_set_classes: the scan of the JSON text for quoted names

Quote == "\""

\* json.find("\"", from), positions counted from 1; 0 is std::string::npos
Find(json, from) ==
    IF \E i \in from..Len(json) : json[i] = Quote
    THEN CHOOSE i \in from..Len(json) :
            json[i] = Quote /\ \A j \in from..(i - 1) : json[j] # Quote
    ELSE 0

\* the while loop of yolo_set_classes from position pos with names collected
RECURSIVE ParseNames(_, _, _)
ParseNames(json, pos, names) ==
    LET open == Find(json, pos)
    IN  IF open = 0 THEN names
        ELSE LET start == open + 1
                 end   == Find(json, start)
             IN  IF end = 0 THEN names
                 ELSE LET name == SubSeq(json, start, end - 1)
                      IN  ParseNames(json, end + 1,
                                     IF name # <<>> THEN Append(names, name)
                                     ELSE names)

\* faulty variant: without the test !names.empty()
SetClassesFromJson_NoEmptyTest(d, json) ==
    SetClassNames(d, ParseNames(json, 1, <<>>))

\* what yolo_set_classes does to an existing detector
SetClassesFromJson(d, json) ==
    LET names == ParseNames(json, 1, <<>>)
    IN  IF names # <<>> THEN SetClassNames(d, names) ELSE d

\* The JSON text of a list of labels, ["class1","class2",...], as the caller
\* passes it
RECURSIVE JsonItems(_, _)
JsonItems(labels, i) ==
    IF i > Len(labels) THEN <<>>
    ELSE (IF i > 1 THEN <<",">> ELSE <<>>)
         \o <<Quote>> \o labels[i] \o <<Quote>> \o JsonItems(labels, i + 1)

JsonArray(labels) == <<"[">> \o JsonItems(labels, 1) \o <<"]">>

\* the labels a caller may use
Labels == {<<>>, <<"a">>, <<"b">>}

RECURSIVE SeqsUpTo(_, _)
SeqsUpTo(S, n) ==
    IF n = 0 THEN {<<>>}
    ELSE LET shorter == SeqsUpTo(S, n - 1)
         IN  shorter \cup {Append(s, x) : s \in {t \in shorter : Len(t) = n - 1}, x \in S}

LabelLists == SeqsUpTo(Labels, MaxLabels)

-----------------------------------------------------------------------------
\* Numbers: a float is the integer number of its 1/Q units

Q == 4

Min(a, b) == IF a < b THEN a ELSE b
Max(a, b) == IF a > b THEN a ELSE b

\* static_cast<int>(float): towards zero
ToInt(v) == IF v >= 0 THEN v \div Q ELSE -((-v) \div Q)

\* the product of two floats
Mul(a, b) == (a * b) \div Q

\* std::exp, to the resolution of the model: positive and monotone
Exp(v) == IF v < 0 THEN Max(1, (37 * Q) \div 100)
          ELSE IF v < Q THEN Q
          ELSE (272 * Q) \div 100

\* std::max(0.0f, std::min(v, limit)) with limit a number of pixels
Clamp(v, limit) == Max(0, Min(v, limit * Q))

-----------------------------------------------------------------------------
\* preprocess: the transform of a width x height image to the model input

\* [ok, scale (num/den), pad_x, pad_y]; not ok: cv::resize throws cv::Exception
Preprocess(d, width, height) ==
    IF d.m_model_type = "PPYOLOE"
    THEN [ok |-> TRUE, num |-> 1, den |-> 1, pad_x |-> 0, pad_y |-> 0]
    ELSE LET byWidth == d.m_input_width * height < d.m_input_height * width
             num == IF byWidth THEN d.m_input_width ELSE d.m_input_height
             den == IF byWidth THEN width ELSE height
             new_width  == (width * num) \div den
             new_height == (height * num) \div den
         IN  [ok    |-> new_width > 0 /\ new_height > 0,
              num   |-> num,
              den   |-> den,
              pad_x |-> (d.m_input_width - new_width) \div 2,
              pad_y |-> (d.m_input_height - new_height) \div 2]

\* (v - pad) / scale
Unletterbox(v, pad, tf) == ((v - pad * Q) * tf.den) \div tf.num

-----------------------------------------------------------------------------
\* postprocess: the output tensor [shape, count, data] to detections

\* output[k], k counted from 0; past the end of the tensor the read is
\* undefined and yields junk
ReadOut(t, k, junk) == IF k >= 0 /\ k < t.count THEN t.data[k + 1] ELSE junk

InRange(t, k) == k >= 0 /\ k < t.count

\* faulty variant: class_id <= size in place of class_id < size
ClassName_OffByOne(d, class_id) ==
    IF class_id <= Len(d.m_class_names)
    THEN IF class_id >= 0 /\ class_id < Len(d.m_class_names)
         THEN [name |-> d.m_class_names[class_id + 1], bad_read |-> FALSE]
         ELSE [name |-> <<>>, bad_read |-> TRUE]
    ELSE [name |-> <<"class_", ToString(class_id)>>, bad_read |-> FALSE]

\* the label of class_id: [name, bad_read]
ClassName(d, class_id) ==
    IF class_id < Len(d.m_class_names)
    THEN IF class_id >= 0
         THEN [name |-> d.m_class_names[class_id + 1], bad_read |-> FALSE]
         ELSE [name |-> <<>>, bad_read |-> TRUE]
    ELSE [name |-> <<"class_", ToString(class_id)>>, bad_read |-> FALSE]

Detection(d, class_id, confidence, x1, y1, x2, y2) ==
    LET label == ClassName(d, class_id)
    IN  [ class_id   |-> class_id,
          class_name |-> label.name,
          confidence |-> confidence,
          x1 |-> x1, y1 |-> y1, x2 |-> x2, y2 |-> y2,
          bad_table_read |-> label.bad_read ]

\* the result of one row or box: not emitted
Skip(oob) == [emit |-> FALSE, oob |-> oob]
Emit(det, oob) == [emit |-> TRUE, det |-> det, oob |-> oob]

\* dim1, dim2 and whether the shape is handled at all
OutputDims(t) ==
    LET shape == t.shape
    IN  IF Len(shape) = 2 THEN [ok |-> TRUE, dim1 |-> shape[1], dim2 |-> shape[2]]
        ELSE IF Len(shape) >= 3 THEN [ok |-> TRUE, dim1 |-> shape[2], dim2 |-> shape[3]]
        ELSE IF Len(shape) = 1 THEN [ok |-> TRUE, dim1 |-> t.count, dim2 |-> 0]
        ELSE [ok |-> FALSE, dim1 |-> 0, dim2 |-> 0]

\* PP-YOLOE: the number of rows read
PPYOLOENumDetections(t, dim1, dim2) ==
    LET count == t.count
    IN  IF Len(t.shape) = 2
        THEN IF dim2 = PPYOLOEFeatures THEN dim1
             ELSE IF dim1 = PPYOLOEFeatures THEN dim2
             ELSE count \div PPYOLOEFeatures
        ELSE IF Len(t.shape) >= 3
        THEN IF dim1 = PPYOLOEFeatures /\ dim2 > 0 THEN dim2
             ELSE IF dim2 = PPYOLOEFeatures /\ dim1 > 0 THEN dim1
             ELSE IF dim1 = PPYOLOEFeatures THEN count \div PPYOLOEFeatures
             ELSE 0
        ELSE count \div PPYOLOEFeatures

\* faulty variant: a row whose score equals the threshold is skipped
PPYOLOERow_StrictThreshold(d, t, i, width, height, conf_threshold, junk) ==
    LET base == i * PPYOLOEFeatures
        class_id == ToInt(ReadOut(t, base, junk))
        score == ReadOut(t, base + 1, junk)
        oob == \E k \in 0..5 : ~InRange(t, base + k)
    IN  IF score <= conf_threshold THEN Skip(oob)
        ELSE IF class_id < 0 THEN Skip(oob)
        ELSE Emit(Detection(d, class_id, score,
                            Clamp(ReadOut(t, base + 2, junk), width),
                            Clamp(ReadOut(t, base + 3, junk), height),
                            Clamp(ReadOut(t, base + 4, junk), width),
                            Clamp(ReadOut(t, base + 5, junk), height)), oob)

\* PP-YOLOE: row i (from 0)
PPYOLOERow(d, t, i, width, height, conf_threshold, junk) ==
    LET base == i * PPYOLOEFeatures
        class_id == ToInt(ReadOut(t, base, junk))
        score == ReadOut(t, base + 1, junk)
        oob == \E k \in 0..5 : ~InRange(t, base + k)
    IN  IF score < conf_threshold THEN Skip(oob)
        ELSE IF class_id < 0 THEN Skip(oob)
        ELSE Emit(Detection(d, class_id, score,
                            Clamp(ReadOut(t, base + 2, junk), width),
                            Clamp(ReadOut(t, base + 3, junk), height),
                            Clamp(ReadOut(t, base + 4, junk), width),
                            Clamp(ReadOut(t, base + 5, junk), height)), oob)

\* the loop "find max class score" over scores[1..n], from max 0 at class 0
\* and replacing on a strictly greater score: the first class of the greatest
\* score when that is above 0
MaxClass(scores) ==
    LET n == Len(scores)
        values == {scores[c] : c \in 1..n}
        greatest == CHOOSE v \in values : \A w \in values : w <= v
    IN  IF values = {} \/ greatest <= 0 THEN [score |-> 0, class |-> 0]
        ELSE LET first == CHOOSE c \in 1..n :
                             scores[c] = greatest
                             /\ \A e \in 1..(c - 1) : scores[e] # greatest
             IN  [score |-> greatest, class |-> first - 1]

Strides == <<8, 16, 32>>

\* YOLOX: the grid cells of one stride, in raster order
GridOf(d, stride) ==
    LET grid_size == d.m_input_width \div stride
    IN  [k \in 1..(grid_size * grid_size) |->
            [x |-> (k - 1) % grid_size, y |-> (k - 1) \div grid_size, s |-> stride]]

Grids(d) == GridOf(d, Strides[1]) \o GridOf(d, Strides[2]) \o GridOf(d, Strides[3])

\* the corners of centre (cx, cy) and size (w, h) in the original image
Corners(cx, cy, w, h, tf, width, height) ==
    [ x1 |-> Clamp(Unletterbox(cx - w \div 2, tf.pad_x, tf), width),
      y1 |-> Clamp(Unletterbox(cy - h \div 2, tf.pad_y, tf), height),
      x2 |-> Clamp(Unletterbox(cx + w \div 2, tf.pad_x, tf), width),
      y2 |-> Clamp(Unletterbox(cy + h \div 2, tf.pad_y, tf), height) ]

\* YOLOX: box i (from 0) of rows of `features` values
YOLOXBox(d, t, i, features, grids, tf, width, height, conf_threshold, junk) ==
    LET base == i * features
        objectness == ReadOut(t, base + 4, junk)
        oobObj == ~InRange(t, base + 4)
    IN  IF objectness < conf_threshold THEN Skip(oobObj)
        ELSE
        LET scores == SubSeq([c \in 1..d.m_num_classes |->
                                ReadOut(t, base + 5 + (c - 1), junk)],
                             1, d.m_num_classes)
            best == MaxClass(scores)
            oobCls == \E c \in 1..d.m_num_classes : ~InRange(t, base + 5 + (c - 1))
            confidence == Mul(objectness, best.score)
        IN  IF confidence < conf_threshold THEN Skip(oobObj \/ oobCls)
            ELSE
            LET oobGrid == i + 1 > Len(grids)
                oobBox  == \E k \in 0..3 : ~InRange(t, base + k)
                cell == IF oobGrid THEN [x |-> junk, y |-> junk, s |-> junk]
                        ELSE [x |-> grids[i + 1].x * Q, y |-> grids[i + 1].y * Q,
                              s |-> grids[i + 1].s]
                cx == (ReadOut(t, base, junk) + cell.x) * cell.s
                cy == (ReadOut(t, base + 1, junk) + cell.y) * cell.s
                w  == Exp(ReadOut(t, base + 2, junk)) * cell.s
                h  == Exp(ReadOut(t, base + 3, junk)) * cell.s
                c  == Corners(cx, cy, w, h, tf, width, height)
            IN  Emit(Detection(d, best.class, confidence, c.x1, c.y1, c.x2, c.y2),
                     oobObj \/ oobCls \/ oobGrid \/ oobBox)

\* YOLOv8: box i (from 0)
YOLOV8Box(d, t, i, transposed, num_boxes, features, tf, width, height, conf_threshold, junk) ==
    LET at(k) == IF transposed THEN i * features + k ELSE k * num_boxes + i
        num_classes == features - 4
        scores == SubSeq([c \in 1..num_classes |-> ReadOut(t, at(4 + (c - 1)), junk)],
                         1, num_classes)
        best == MaxClass(scores)
        oob == \E k \in 0..(features - 1) : ~InRange(t, at(k))
    IN  IF best.score < conf_threshold THEN Skip(oob)
        ELSE LET c == Corners(ReadOut(t, at(0), junk), ReadOut(t, at(1), junk),
                              ReadOut(t, at(2), junk), ReadOut(t, at(3), junk),
                              tf, width, height)
             IN  Emit(Detection(d, best.class, best.score, c.x1, c.y1, c.x2, c.y2),
                      oob \/ \E k \in 0..3 : ~InRange(t, at(k)))

\* the detections pushed back by the loop over rows 1..n, in order, and
\* whether a read of the loop was undefined
Collect(rows, n) ==
    LET done == SubSeq(rows, 1, n)
        emitted == {i \in 1..Len(done) : done[i].emit}
        nth(j) == CHOOSE i \in emitted : Cardinality({e \in emitted : e <= i}) = j
    IN  [dets |-> [j \in 1..Cardinality(emitted) |-> done[nth(j)].det],
         oob  |-> \E i \in 1..Len(done) : done[i].oob]

NoDetections == [dets |-> <<>>, oob |-> FALSE]

-----------------------------------------------------------------------------
\* iou and nms

Area(a) == (a.x2 - a.x1) * (a.y2 - a.y1)

\* faulty variant: the union taken as the sum of the two areas
IoUExceeds_SumOfAreas(a, b, iou_threshold) ==
    LET x1 == Max(a.x1, b.x1)
        y1 == Max(a.y1, b.y1)
        x2 == Min(a.x2, b.x2)
        y2 == Min(a.y2, b.y2)
        inter_area == Max(0, x2 - x1) * Max(0, y2 - y1)
        union_area == Area(a) + Area(b)
    IN  IF union_area > 0 THEN inter_area * Q > iou_threshold * union_area
        ELSE 0 > iou_threshold

\* iou(a, b) > iou_threshold
IoUExceeds(a, b, iou_threshold) ==
    LET x1 == Max(a.x1, b.x1)
        y1 == Max(a.y1, b.y1)
        x2 == Min(a.x2, b.x2)
        y2 == Min(a.y2, b.y2)
        inter_area == Max(0, x2 - x1) * Max(0, y2 - y1)
        union_area == Area(a) + Area(b) - inter_area
    IN  IF union_area > 0 THEN inter_area * Q > iou_threshold * union_area
        ELSE 0 > iou_threshold

\* std::sort by confidence, descending. The order of equal confidences is
\* unspecified; tie says which the build produces: "stable" keeps them in
\* input order, "reverse" reverses them.
RECURSIVE SortByConfidence(_, _)
SortByConfidence(dets, tie) ==
    IF dets = <<>> THEN <<>>
    ELSE LET n == Len(dets)
             last == dets[n]
             front == SortByConfidence(SubSeq(dets, 1, n - 1), tie)
             before(e) == IF tie = "stable" THEN e.confidence >= last.confidence
                          ELSE e.confidence > last.confidence
             k == Cardinality({j \in 1..Len(front) : before(front[j])})
         IN  SubSeq(front, 1, k) \o <<last>> \o SubSeq(front, k + 1, Len(front))

\* faulty variant: only the next detection is compared
Suppresses_OnlyNext(sorted, i, j, iou_threshold) ==
    /\ j = i + 1
    /\ sorted[i].class_id = sorted[j].class_id
    /\ IoUExceeds(sorted[i], sorted[j], iou_threshold)

\* faulty variant: no test of the class
Suppresses_AnyClass(sorted, i, j, iou_threshold) ==
    IoUExceeds(sorted[i], sorted[j], iou_threshold)

\* the test of the inner loop of nms: the kept detection i suppresses j
Suppresses(sorted, i, j, iou_threshold) ==
    /\ sorted[i].class_id = sorted[j].class_id
    /\ IoUExceeds(sorted[i], sorted[j], iou_threshold)

\* the outer loop of nms from index i over the sorted detections
RECURSIVE NmsLoop(_, _, _, _, _)
NmsLoop(sorted, i, suppressed, result, iou_threshold) ==
    IF i > Len(sorted) THEN result
    ELSE IF i \in suppressed
    THEN NmsLoop(sorted, i + 1, suppressed, result, iou_threshold)
    ELSE NmsLoop(sorted, i + 1,
                 suppressed \cup
                    {j \in (i + 1)..Len(sorted) :
                        /\ j \notin suppressed
                        /\ Suppresses(sorted, i, j, iou_threshold)},
                 Append(result, sorted[i]), iou_threshold)

Nms(dets, iou_threshold, tie) ==
    NmsLoop(SortByConfidence(dets, tie), 1, {}, <<>>, iou_threshold)

-----------------------------------------------------------------------------
\* postprocess and detect

\* YOLOX: num_boxes = dim1, features = dim2
YOLOXLayout(dim1, dim2) == [num_boxes |-> dim1, features |-> dim2]

Postprocess(d, t, width, height, tf, conf_threshold, iou_threshold, tie, junk) ==
    LET dims == OutputDims(t)
        dim1 == dims.dim1
        dim2 == dims.dim2
    IN  IF ~dims.ok THEN NoDetections
        ELSE IF d.m_model_type = "PPYOLOE"
        THEN LET n == PPYOLOENumDetections(t, dim1, dim2)
             IN  Collect([i \in 1..n |->
                            PPYOLOERow(d, t, i - 1, width, height, conf_threshold, junk)],
                         n)
        ELSE
        LET found ==
              IF d.m_model_type = "YOLOX"
              THEN LET grids == Grids(d)
                       layout == YOLOXLayout(dim1, dim2)
                   IN  Collect([i \in 1..layout.num_boxes |->
                                  YOLOXBox(d, t, i - 1, layout.features, grids, tf,
                                           width, height, conf_threshold, junk)],
                               layout.num_boxes)
              ELSE LET transposed == dim1 > dim2
                       num_boxes == IF transposed THEN dim1 ELSE dim2
                       features  == IF transposed THEN dim2 ELSE dim1
                   IN  Collect([i \in 1..num_boxes |->
                                  YOLOV8Box(d, t, i - 1, transposed, num_boxes, features,
                                            tf, width, height, conf_threshold, junk)],
                               num_boxes)
        IN  [dets |-> Nms(found.dets, iou_threshold, tie), oob |-> found.oob]

\* detect: the index of the image and of the scale input ("find which input
\* is which by name"), counted from 0, with the defaults when none is found
ImageIdx(names) ==
    LET found == {i \in 1..Len(names) : Contains(names[i], "image")}
    IN  IF found = {} THEN 1
        ELSE (CHOOSE i \in found : \A j \in found : j <= i) - 1

ScaleIdx(names) ==
    LET found == {i \in 1..Len(names) :
                     ~Contains(names[i], "image") /\ Contains(names[i], "scale")}
    IN  IF found = {} THEN 0
        ELSE (CHOOSE i \in found : \A j \in found : j <= i) - 1

\* detect: input_values, the tensors created for the Run call, in order
InputValues(d) ==
    LET names == d.m_input_names_str
    IN  IF d.m_model_type = "PPYOLOE" /\ Len(names) >= 2
        THEN LET image_idx == ImageIdx(names)
                 scale_idx == ScaleIdx(names)
                 made == {i \in 1..Len(names) : i - 1 = image_idx \/ i - 1 = scale_idx}
                 nth(j) == CHOOSE i \in made : Cardinality({e \in made : e <= i}) = j
             IN  [j \in 1..Cardinality(made) |->
                    IF nth(j) - 1 = image_idx THEN "image" ELSE "scale"]
        ELSE <<"image">>

\* detect: scale_factor_data = {scale_y, scale_x}, each input / original
ScaleFactorData(d, width, height) ==
    <<[num |-> d.m_input_height, den |-> height],
      [num |-> d.m_input_width, den |-> width]>>

\* m_session->Run(input_names.data(), input_values.data(), input_values.size(),
\* ...): the engine pairs the first input_values.size() names with the values
RunInputs(d) ==
    LET values == InputValues(d)
    IN  [k \in 1..Len(values) |->
            [name   |-> IF k <= Len(d.m_input_names_str)
                        THEN d.m_input_names_str[k] ELSE <<>>,
             tensor |-> values[k]]]

\* what the inference engine does with one Run call: it throws, or returns
\* outputs[0]
EngineThrows == [throws |-> TRUE, out |-> [shape |-> <<>>, count |-> 0, data |-> <<>>]]
EngineReturns(t) == [throws |-> FALSE, out |-> t]

\* YoloDetector::detect: [results, oob]
Detect(d, width, height, conf_threshold, iou_threshold, engine, tie, junk) ==
    LET tf == Preprocess(d, width, height)
    IN  IF ~tf.ok \/ engine.throws THEN NoDetections
        ELSE Postprocess(d, engine.out, width, height, tf,
                         conf_threshold, iou_threshold, tie, junk)

-----------------------------------------------------------------------------
\* The bridge (ffi_bridge.cpp): what each entry point returns and does

\* the record of a call; every call fills in the fields it has
NoCall ==
    [ op |-> "none",
      model_path |-> "", inputs |-> <<>>, outputs |-> <<>>,
      old |-> YoloDetectorCtor, before |-> YoloDetectorCtor, scan |-> <<>>,
      labels |-> <<>>,
      value |-> 0,
      code |-> "", touched |-> FALSE, pipeline |-> FALSE, oob |-> FALSE,
      detections |-> <<>>, image_width |-> 0, image_height |-> 0,
      freed |-> 0,
      frame |-> <<>>,
      ran |-> FALSE, fed |-> <<>>, scale_factor |-> <<>>,
      engine_throws |-> FALSE,
      out |-> [shape |-> <<>>, count |-> 0, data |-> <<>>],
      conf_threshold |-> 0, iou_threshold |-> 0,
      candidates |-> <<>>, again |-> <<>> ]

DecodeOps == {"yolo_detect_path", "yolo_detect_buffer", "yolo_detect_yuv"}

\* faulty variant: the error text of another failure
NotInitializedError_OtherCode(op) ==
    [NoCall EXCEPT !.op = op, !.code = "IMAGE_LOAD_FAILED"]

\* strdup of the NOT_INITIALIZED error of the bridge: the inputs are not read
NotInitializedError(op) ==
    [NoCall EXCEPT !.op = op, !.code = "NOT_INITIALIZED"]

\* the same error text of YoloDetector::detectFrom*, when !m_initialized
DetectorNotInitialized(op) ==
    [NoCall EXCEPT !.op = op, !.code = "NOT_INITIALIZED"]

ImageLoadFailed(op) ==
    [NoCall EXCEPT !.op = op, !.code = "IMAGE_LOAD_FAILED", !.touched = TRUE]

\* an exception thrown outside detect's try block: detectFromBuffer and
\* detectFromYUV catch nothing, so it leaves the entry point and nothing is
\* returned
UncaughtException(op) ==
    [NoCall EXCEPT !.op = op, !.code = "UNCAUGHT_EXCEPTION", !.touched = TRUE]

\* toJson of the detections found in an image of the given size
ToJson(op, found, image_width, image_height) ==
    [NoCall EXCEPT !.op = op, !.code = "OK", !.touched = TRUE, !.pipeline = TRUE,
                   !.oob = found.oob, !.detections = found.dets,
                   !.image_width = image_width, !.image_height = image_height]

\* yolo_is_initialized
YoloIsInitialized(gd, h) == IF gd # NULL /\ h[gd].m_initialized THEN 1 ELSE 0

\* faulty variant: init run again on the detector already there
YoloInit_NoRecreate(gd, h, a, model_path, model) ==
    IF gd = NULL
    THEN LET r == DetectorInit(YoloDetectorCtor, model_path, model)
         IN  [g_detector |-> a, heap |-> New(h, a, r.det), init |-> r, freed |-> 0]
    ELSE LET r == DetectorInit(h[gd], model_path, model)
         IN  [g_detector |-> gd, heap |-> Store(h, gd, r.det), init |-> r, freed |-> 0]

\* faulty variant: the detector already there is kept when the load fails
YoloInit_KeepOnFailure(gd, h, a, model_path, model) ==
    LET h1 == IF gd # NULL THEN Delete(h, gd) ELSE h
        r  == DetectorInit(YoloDetectorCtor, model_path, model)
    IN  IF ~r.ok /\ gd # NULL
        THEN [g_detector |-> gd, heap |-> h, init |-> r, freed |-> 0]
        ELSE [g_detector |-> a, heap |-> New(h1, a, r.det), init |-> r,
              freed |-> IF gd # NULL THEN 1 ELSE 0]

\* yolo_init with the allocator returning address a: the pointer, the heap,
\* the result of init and the number of objects deleted
YoloInit(gd, h, a, model_path, model) ==
    LET h1 == IF gd # NULL THEN Delete(h, gd) ELSE h
        r  == DetectorInit(YoloDetectorCtor, model_path, model)
    IN  [g_detector |-> a, heap |-> New(h1, a, r.det), init |-> r,
         freed |-> IF gd # NULL THEN 1 ELSE 0]

\* faulty variant: the pointer cleared, the detector not deleted
YoloRelease_Leak(gd, h) ==
    IF gd # NULL
    THEN [g_detector |-> NULL, heap |-> h, freed |-> 0]
    ELSE [g_detector |-> gd, heap |-> h, freed |-> 0]

\* yolo_release
YoloRelease(gd, h) ==
    IF gd # NULL
    THEN [g_detector |-> NULL, heap |-> Delete(h, gd), freed |-> 1]
    ELSE [g_detector |-> gd, heap |-> h, freed |-> 0]

\* yolo_set_classes
YoloSetClasses(gd, h, json) ==
    IF gd = NULL THEN h
    ELSE Store(h, gd, SetClassesFromJson(h[gd], json))

\* a decode entry point on an image the codec or the caller's buffer yields:
\* image is [empty, cols, rows], run is what the engine and the build do
YoloDetect(gd, h, op, image, run) ==
    IF gd = NULL THEN NotInitializedError(op)
    ELSE IF ~h[gd].m_initialized THEN DetectorNotInitialized(op)
    ELSE IF image.empty THEN ImageLoadFailed(op)
    ELSE IF image.thrown THEN UncaughtException(op)
    ELSE LET ran == Preprocess(h[gd], image.cols, image.rows).ok
         IN  [ToJson(op,
                     Detect(h[gd], image.cols, image.rows, run.conf_threshold,
                            run.iou_threshold, run.engine, run.tie, run.junk),
                     image.cols, image.rows)
              EXCEPT !.ran = ran,
                     !.fed = IF ran THEN RunInputs(h[gd]) ELSE <<>>,
                     !.scale_factor =
                         IF ran /\ "scale" \in {InputValues(h[gd])[k] :
                                                   k \in 1..Len(InputValues(h[gd]))}
                         THEN ScaleFactorData(h[gd], image.cols, image.rows)
                         ELSE <<>>,
                     !.engine_throws = ran /\ run.engine.throws,
                     !.out = IF ran /\ ~run.engine.throws THEN run.engine.out ELSE @,
                     !.conf_threshold = run.conf_threshold,
                     !.iou_threshold = run.iou_threshold]

-----------------------------------------------------------------------------
\* Inputs of the decode calls

\* an output tensor: zero but for the cells of hot (index from 0 -> value)
SparseTensor(shape, count, hot) ==
    [shape |-> shape,
     count |-> count,
     data  |-> SubSeq([k \in 1..count |->
                          IF (k - 1) \in DOMAIN hot THEN hot[k - 1] ELSE 0],
                      1, count)]

\* a row of consecutive cells from index base
Cells(base, values) == [k \in base..(base + Len(values) - 1) |-> values[k - base + 1]]

\* 21 boxes of 2 classes: two boxes of class 0 on one place, one of class 1
YoloxOut ==
    SparseTensor(<<1, 21, 7>>, 147,
        Cells(0, <<0, 0, 0, 0, Q, Q, Q \div 2>>)
        @@ Cells(7, <<-Q, 0, 0, 0, Q, Q \div 2, 0>>)
        @@ Cells(112, <<0, 0, Q, Q, Q, 0, Q>>))

\* 21 boxes of 2 classes: the last box, of class 0
YoloxLastOut ==
    SparseTensor(<<1, 21, 7>>, 147, Cells(140, <<0, 0, 0, 0, Q, Q, 0>>))

\* 129 boxes of 85 classes: box 1 of class 1 and box 3 of class 82
YoloxWideOut ==
    SparseTensor(<<1, 129, 90>>, 11610,
        Cells(270, <<0, 0, 0, 0, Q>>) @@ (357 :> Q)
        @@ Cells(90, <<0, 0, 0, 0, Q, 0, Q>>))

\* 84 features by 86 boxes: box 2 of class 5, box 7 of class 0 with w < 0
YoloV8Out ==
    SparseTensor(<<1, 84, 86>>, 7224,
        (2 :> 8 * Q) @@ (88 :> 8 * Q) @@ (174 :> 8 * Q) @@ (260 :> 8 * Q)
        @@ (776 :> Q)
        @@ (7 :> 8 * Q) @@ (93 :> 8 * Q) @@ (179 :> -4 * Q) @@ (265 :> 4 * Q)
        @@ (351 :> Q \div 2))

\* 5 features by 8 boxes: boxes 0 and 1 of the only class
CustomOut ==
    SparseTensor(<<1, 5, 8>>, 40,
        (0 :> 4 * Q) @@ (8 :> 4 * Q) @@ (16 :> 4 * Q) @@ (24 :> 4 * Q)
        @@ (32 :> Q) @@ (33 :> Q))

\* rows (class_id, score, x1, y1, x2, y2)
PPYOLOEOut ==
    SparseTensor(<<2, 6>>, 12,
        Cells(0, <<Q, Q, Q, Q, 5 * Q, 5 * Q>>)
        @@ Cells(6, <<85 * Q, Q \div 2, 2 * Q, 2 * Q, 6 * Q, 6 * Q>>))

PPYOLOEOddOut ==
    SparseTensor(<<2, 6>>, 12,
        Cells(0, <<-Q, Q, Q, Q, 5 * Q, 5 * Q>>)
        @@ Cells(6, <<0, Q, 9 * Q, 2 * Q, 3 * Q, 100 * Q>>))

PPYOLOEPlainOut ==
    SparseTensor(<<1, 3, 6>>, 18,
        Cells(0, <<2 * Q, Q, 0, 0, 4 * Q, 4 * Q>>)
        @@ Cells(6, <<2 * Q, Q, 0, 0, 4 * Q, 4 * Q>>)
        @@ Cells(12, <<-(Q \div 2), Q, 0, 0, 4 * Q, 4 * Q>>))

\* 5 features by 8 boxes: box 0 with a raw class score of 2
CustomHotOut ==
    SparseTensor(<<1, 5, 8>>, 40,
        (0 :> 4 * Q) @@ (8 :> 4 * Q) @@ (16 :> 4 * Q) @@ (24 :> 4 * Q)
        @@ (32 :> 2 * Q))

\* 6 by 2, read as 2 rows of 6
PPYOLOETOut ==
    SparseTensor(<<1, 6, 2>>, 12,
        Cells(0, <<0, Q \div 2, Q, Q, 5 * Q, 5 * Q>>)
        @@ Cells(6, <<Q, Q \div 4, 2 * Q, 2 * Q, 6 * Q, 6 * Q>>))

\* 42 boxes of 2 classes for a 32 wide, 64 high input: boxes 3 and 30
YoloxTallOut ==
    SparseTensor(<<1, 42, 7>>, 294,
        Cells(21, <<0, 0, 0, 0, Q, Q, 0>>)
        @@ Cells(210, <<0, 0, 0, 0, Q, 0, Q>>))

\* 7 features by 21 boxes of 2 classes: box 0 of class 0
YoloxTOut ==
    SparseTensor(<<1, 7, 21>>, 147, (84 :> Q) @@ (105 :> Q))

\* a flat output of 6 values
FlatOut ==
    SparseTensor(<<6>>, 6, Cells(0, <<0, 0, 0, 0, Q, Q>>))

\* what the engine may return for the model of a session
EngineOutputs(session) ==
    CASE session = "yolox.onnx" -> {YoloxOut, YoloxLastOut}
      [] session = "yolox_wide.onnx" -> {YoloxWideOut}
      [] session = "yolov8.onnx" -> {YoloV8Out}
      [] session = "custom.onnx" -> {CustomOut, CustomHotOut}
      [] session = "ppyoloe.onnx" -> {PPYOLOEOut, PPYOLOEOddOut}
      [] session = "ppyoloe_plain.onnx" -> {PPYOLOEPlainOut}
      [] session = "ppyoloe_swapped.onnx" -> {PPYOLOEOut}
      [] session = "ppyoloe_x.onnx" -> {PPYOLOEOut}
      [] session = "ppyoloe_t.onnx" -> {PPYOLOETOut}
      [] session = "yolox_tall.onnx" -> {YoloxTallOut}
      [] session = "yolox_t.onnx" -> {YoloxTOut}
      [] session = "flat.onnx" -> {FlatOut}
      [] OTHER -> {}

ConfThresholds == {Q \div 4, Q \div 2}
IouThresholds == {Q \div 2}

\* what the build does where the language leaves it open: the order std::sort
\* gives equal confidences, and the value of a read past the end of a buffer
Builds == {[tie |-> "stable", junk |-> 0], [tie |-> "reverse", junk |-> 2 * Q]}

Engines(session) == {EngineThrows} \cup {EngineReturns(t) : t \in EngineOutputs(session)}

Run(engine, conf_threshold, iou_threshold, build) ==
    [engine |-> engine, conf_threshold |-> conf_threshold,
     iou_threshold |-> iou_threshold, tie |-> build.tie, junk |-> build.junk]

\* the runs of a decode call on the detector of the bridge
Runs(gd, h) ==
    LET session == IF gd = NULL THEN NoSession ELSE h[gd].m_session
    IN  {Run(e, c, i, b) : e \in Engines(session), c \in ConfThresholds,
                           i \in IouThresholds, b \in Builds}

\* the runs with the default thresholds of yolo_detector.hpp and one build
DefaultRuns(gd, h) ==
    {r \in Runs(gd, h) : r.conf_threshold = Q \div 4 /\ r.tie = "stable"}

\* cv::imread: an empty image when the file cannot be read
ImageFiles == {"missing.jpg", "photo.jpg"}
ImageAt(image_path) ==
    IF image_path = "photo.jpg"
    THEN [empty |-> FALSE, thrown |-> FALSE, cols |-> 64, rows |-> 48]
    ELSE [empty |-> TRUE, thrown |-> FALSE, cols |-> 0, rows |-> 0]

\* the frames of the camera: <<width, height>>
Frames == {<<32, 32>>, <<64, 32>>}
Rotations == {0, 90, 180, 270}
WideFrame == <<64, 32>>

\* frames no camera delivers: <<width, height, row stride>>
BadFrames == {<<0, 32, 0>>, <<32, 0, 128>>, <<-32, 32, 128>>, <<32, 32, 16>>,
              <<32, 32, 100>>}

\* the bytes of a BGRA pixel
BGRAChannels == 4

\* cv::Mat(height, width, CV_8UC4, data, stride) and cv::cvtColor, which
\* detectFromBuffer runs with no check of its own: cvtColor throws on an
\* empty image; the checks of the sizes and of the step are assertions of the
\* library that a build may have or not
BufferOutcomes(width, height, stride) ==
    IF width = 0 \/ height = 0 THEN {"throws"}
    ELSE IF width < 0 \/ height < 0 THEN {"throws", "converts"}
    ELSE IF stride < width * BGRAChannels THEN {"throws", "converts"}
    ELSE {"converts"}

\* detectFromYUV: std::vector(width * height * 3 / 2) throws on a negative
\* size, cvtColor on an empty image; the row strides are used unchecked
YUVOutcomes(width, height, y_row_stride, uv_row_stride) ==
    IF width * height <= 0 THEN {"throws"}
    ELSE IF width < 0 THEN {"throws", "converts"}
    ELSE {"converts"}

\* the image a packed buffer is converted to
BufferImage(width, height, outcome) ==
    [empty |-> FALSE, thrown |-> outcome = "throws", cols |-> width, rows |-> height]

\* the image a YUV frame is converted to: cv::rotate swaps the sides
YUVImage(width, height, rotation, outcome) ==
    IF rotation = 90 \/ rotation = 270
    THEN [empty |-> FALSE, thrown |-> outcome = "throws", cols |-> height, rows |-> width]
    ELSE [empty |-> FALSE, thrown |-> outcome = "throws", cols |-> width, rows |-> height]

-----------------------------------------------------------------------------
\* The calls of the library, one action each

NoHistory == [ever_init |-> FALSE, present |-> FALSE, ready |-> FALSE, first |-> <<>>]

\* the threads of the application that call the library
Threads == {"ui", "camera"}

\* a thread in no decode call; in one: pc is "called" after the null test of
\* the bridge, "reading" after the m_initialized test of detectFrom*; this is
\* the pointer the call goes through, seen the object as it was when the
\* pointer was loaded, dangling whether the object was deleted since,
\* checked whether the m_initialized test read the object or a deleted one
IdleCall ==
    [pc |-> "idle", this |-> NULL, seen |-> YoloDetectorCtor, dangling |-> FALSE,
     checked |-> ""]

\* delete of the object at address a: the pointers the calls in flight hold
\* to it dangle
Deleted(cs, a) ==
    [t \in DOMAIN cs |->
        IF cs[t].pc # "idle" /\ cs[t].this = a /\ a # NULL
        THEN [cs[t] EXCEPT !.dangling = TRUE] ELSE cs[t]]

Init ==
    /\ g_detector = NULL
    /\ heap = <<>>
    /\ ret = NoCall
    /\ hist = NoHistory
    /\ calls = [t \in Threads |-> IdleCall]

\* yolo_init(model_path), the engine finding model there
yolo_init(model_path, model) ==
    \E a \in Addrs \ (DOMAIN heap \ {g_detector}) :
        LET r == YoloInit(g_detector, heap, a, model_path, model)
        IN  /\ g_detector' = r.g_detector
            /\ heap' = r.heap
            /\ ret' = [NoCall EXCEPT !.op = "yolo_init", !.model_path = model_path,
                                     !.inputs = model.inputs,
                                     !.old = IF g_detector # NULL THEN heap[g_detector]
                                             ELSE YoloDetectorCtor,
                                     !.outputs = model.outputs,
                                     !.before = r.init.before, !.scan = r.init.scan,
                                     !.value = IF r.init.ok THEN 1 ELSE 0,
                                     !.freed = r.freed]
            /\ hist' = [hist EXCEPT !.ever_init = TRUE, !.present = TRUE,
                                    !.ready = r.init.ok,
                                    !.first = IF @ = <<>> /\ r.init.ok
                                              THEN <<model_path, r.heap[r.g_detector]>>
                                              ELSE @]
            /\ calls' = IF r.freed = 1 THEN Deleted(calls, g_detector) ELSE calls

yolo_release ==
    LET r == YoloRelease(g_detector, heap)
    IN  /\ g_detector' = r.g_detector
        /\ heap' = r.heap
        /\ ret' = [NoCall EXCEPT !.op = "yolo_release", !.freed = r.freed]
        /\ hist' = [hist EXCEPT !.present = FALSE, !.ready = FALSE]
        /\ calls' = IF r.freed = 1 THEN Deleted(calls, g_detector) ELSE calls

\* yolo_set_classes with the JSON text of a list of labels
yolo_set_classes(labels) ==
    /\ heap' = YoloSetClasses(g_detector, heap, JsonArray(labels))
    /\ ret' = [NoCall EXCEPT !.op = "yolo_set_classes", !.labels = labels]
    /\ UNCHANGED <<g_detector, hist, calls>>

yolo_is_initialized ==
    /\ ret' = [NoCall EXCEPT !.op = "yolo_is_initialized",
                             !.value = YoloIsInitialized(g_detector, heap)]
    /\ UNCHANGED <<g_detector, heap, hist, calls>>

yolo_detect_path(image_path, run) ==
    /\ ret' = YoloDetect(g_detector, heap, "yolo_detect_path", ImageAt(image_path), run)
    /\ UNCHANGED <<g_detector, heap, hist, calls>>

yolo_detect_buffer(width, height, stride, run) ==
    \E outcome \in BufferOutcomes(width, height, stride) :
        /\ ret' = [YoloDetect(g_detector, heap, "yolo_detect_buffer",
                              BufferImage(width, height, outcome), run)
                   EXCEPT !.frame = <<width, height, stride>>]
        /\ UNCHANGED <<g_detector, heap, hist, calls>>

yolo_detect_yuv(width, height, y_row_stride, uv_row_stride, rotation, run) ==
    \E outcome \in YUVOutcomes(width, height, y_row_stride, uv_row_stride) :
        /\ ret' = [YoloDetect(g_detector, heap, "yolo_detect_yuv",
                              YUVImage(width, height, rotation, outcome), run)
                   EXCEPT !.frame = <<width, height, y_row_stride>>]
        /\ UNCHANGED <<g_detector, heap, hist, calls>>

Next ==
    \/ \E model_path \in ModelFiles : yolo_init(model_path, ModelAt(model_path))
    \/ yolo_release
    \/ \E labels \in LabelLists : yolo_set_classes(labels)
    \/ yolo_is_initialized
    \/ \E image_path \in ImageFiles, run \in DefaultRuns(g_detector, heap) :
          yolo_detect_path(image_path, run)
    \/ \E run \in DefaultRuns(g_detector, heap) :
          yolo_detect_buffer(WideFrame[1], WideFrame[2],
                             WideFrame[1] * BGRAChannels, run)
    \/ \E rotation \in {0, 90}, run \in DefaultRuns(g_detector, heap) :
          yolo_detect_yuv(WideFrame[1], WideFrame[2], WideFrame[1], WideFrame[1],
                          rotation, run)

Spec == Init /\ [][Next]_vars

-----------------------------------------------------------------------------
\* One decode per session: yolo_init, then at most one yolo_set_classes, then
\* one decode call, over all the models, frames, thresholds and builds

\* with a list longer than the classes of the small models
DecodeLabelLists == LabelLists \cup {<<<<"a">>, <<"b">>, <<"a">>>>}

NextDecode ==
    \/ /\ ret.op = "none"
       /\ \E model_path \in AllModelFiles : yolo_init(model_path, ModelAt(model_path))
    \/ /\ ret.op = "yolo_init"
       /\ \E labels \in DecodeLabelLists : yolo_set_classes(labels)
    \/ /\ ret.op \in {"yolo_init", "yolo_set_classes"}
       /\ \E frame \in Frames, run \in Runs(g_detector, heap) :
             yolo_detect_buffer(frame[1], frame[2], frame[1] * BGRAChannels, run)
    \/ /\ ret.op = "yolo_init"
       /\ \E frame \in BadFrames, run \in DefaultRuns(g_detector, heap) :
             yolo_detect_buffer(frame[1], frame[2], frame[3], run)
    \/ /\ ret.op = "yolo_init"
       /\ \E frame \in BadFrames \cup {<<32, 32, 32>>}, rotation \in Rotations,
             run \in DefaultRuns(g_detector, heap) :
             yolo_detect_yuv(frame[1], frame[2], frame[3], frame[3], rotation, run)

SpecDecode == Init /\ [][NextDecode]_vars

-----------------------------------------------------------------------------
\* VariantDetector alone: one yolo_init of a fresh process on every model of
\* VDModels

VDDims == {-1, 0, 5, 6, 7, 84, 85, 300, 8400}

VDShapes ==
    {<<1, a, b>> : a \in VDDims, b \in VDDims}
    \cup {<<8400, b>> : b \in VDDims}
    \cup {<<6, 300>>, <<-1, 6>>, <<6>>, <<85>>}

\* the shapes of the other outputs of a model with several
VDOtherShapes == {<<1, 8400, 85>>, <<1, 84, 8400>>, <<1, 300, 6>>, <<1, 7, 8400>>,
                  <<1>>, <<1, 0, 0>>}

VDOutputShapes ==
    {<<s>> \o others : s \in VDShapes, others \in SeqsUpTo(VDOtherShapes, MaxOutputs - 1)}
    \cup {others \o <<s>> : s \in VDShapes, others \in SeqsUpTo(VDOtherShapes, MaxOutputs - 1)}

VDInputs ==
    { <<Tensor(<<"images">>, <<1, 3, 640, 640>>)>>,
      <<Tensor(<<"x">>, <<-1, 3, -1, -1>>)>>,
      <<Tensor(<<"image">>, <<-1, 3, 320, 320>>),
        Tensor(<<"scale", "_factor">>, <<-1, 2>>)>> }

VDModels ==
    {OnnxModel(inputs, [k \in 1..Len(shapes) |-> Tensor(<<"output", ToString(k)>>, shapes[k])]) :
        inputs \in VDInputs, shapes \in VDOutputShapes}

NextVD ==
    /\ ret.op = "none"
    /\ \E model \in VDModels : yolo_init("model.onnx", model)

SpecVD == Init /\ [][NextVD]_vars

-----------------------------------------------------------------------------
\* nms alone: one list of candidates and one threshold, nms applied to the
\* list and then to its own result

MaxCandidates == 3

\* a box [left, left + 4] x [0, 4], in pixels
Candidate(class_id, confidence, left) ==
    Detection(YoloDetectorCtor, class_id, confidence, left * Q, 0, (left + 4) * Q, 4 * Q)

\* boxes at 0, 2 and 4: neighbours overlap by a third, the outer two not at
\* all; two confidences; the middle box in two classes
Candidates ==
    {Candidate(0, confidence, left) : confidence \in {Q \div 2, Q}, left \in {0, 2, 4}}
    \cup {Candidate(1, confidence, 2) : confidence \in {Q \div 2, Q}}

NmsThresholds == {Q \div 4, Q \div 2}

Ties == {"stable", "reverse"}

InitNms ==
    /\ g_detector = NULL
    /\ heap = <<>>
    /\ hist = NoHistory
    /\ calls = [t \in Threads |-> IdleCall]
    /\ \E candidates \in SeqsUpTo(Candidates, MaxCandidates), iou_threshold \in NmsThresholds :
          ret = [NoCall EXCEPT !.op = "candidates", !.candidates = candidates,
                               !.iou_threshold = iou_threshold]

\* nms(detections, iou_threshold) on the candidates
ApplyNms(tie) ==
    /\ ret.op = "candidates"
    /\ ret' = [ret EXCEPT !.op = "nms",
                           !.detections = Nms(ret.candidates, ret.iou_threshold, tie)]
    /\ UNCHANGED <<g_detector, heap, hist, calls>>

\* nms(detections, iou_threshold) on the result of nms
ApplyNmsAgain(tie) ==
    /\ ret.op = "nms"
    /\ ret' = [ret EXCEPT !.op = "nms_again",
                           !.again = Nms(ret.detections, ret.iou_threshold, tie)]
    /\ UNCHANGED <<g_detector, heap, hist, calls>>

NextNms ==
    \/ \E tie \in Ties : ApplyNms(tie)
    \/ \E tie \in Ties : ApplyNmsAgain(tie)

SpecNms == InitNms /\ [][NextNms]_vars

-----------------------------------------------------------------------------
\* Two threads on the library: a decode call takes three steps (the null test
\* of the bridge, the m_initialized test of detectFromBuffer, the pipeline),
\* and the other calls may run between them

\* faulty variant: a lock around every call of the bridge
MayRun_Locked(cs, t) == \A u \in DOMAIN cs : cs[u].pc = "idle"

\* the bridge and YoloDetector take no lock: a thread may start a call
\* whatever the calls of the other threads
MayRun(cs, t) == cs[t].pc = "idle"

\* a crash: the read of a deleted object, or of one being written, that the
\* process does not survive
Crash(op) == [NoCall EXCEPT !.op = op, !.code = "CRASH", !.touched = TRUE]

\* yolo_detect_buffer: if (g_detector == nullptr) return the error; else the
\* pointer is loaded for the call
DetectCall(t) ==
    /\ MayRun(calls, t)
    /\ IF g_detector = NULL
       THEN /\ ret' = NotInitializedError("yolo_detect_buffer")
            /\ calls' = calls
       ELSE /\ calls' = [calls EXCEPT ![t] = [pc |-> "called", this |-> g_detector,
                                              seen |-> heap[g_detector],
                                              dangling |-> FALSE, checked |-> ""]]
            /\ ret' = ret
    /\ UNCHANGED <<g_detector, heap, hist>>

\* detectFromBuffer: if (!m_initialized) return the error. The read of a
\* deleted object is undefined: it crashes, or yields either value
DetectCheck(t) ==
    /\ calls[t].pc = "called"
    /\ \E outcome \in IF calls[t].dangling THEN {"crash", "true", "false"}
                       ELSE IF heap[calls[t].this].m_initialized THEN {"true"}
                       ELSE {"false"} :
          CASE outcome = "crash" ->
                 /\ ret' = Crash("yolo_detect_buffer")
                 /\ calls' = [calls EXCEPT ![t] = IdleCall]
            [] outcome = "false" ->
                 /\ ret' = DetectorNotInitialized("yolo_detect_buffer")
                 /\ calls' = [calls EXCEPT ![t] = IdleCall]
            [] outcome = "true" ->
                 /\ ret' = ret
                 /\ calls' = [calls EXCEPT ![t].pc = "reading",
                                           ![t].checked = IF calls[t].dangling
                                                          THEN "deleted" ELSE "live"]
    /\ UNCHANGED <<g_detector, heap, hist>>

\* whether the object was deleted or written while the call was reading it
Raced(call) ==
    IF call.dangling THEN TRUE
    ELSE IF call.this \notin DOMAIN heap THEN TRUE
    ELSE heap[call.this] # call.seen

\* the objects the pipeline of a call may find behind its pointer: the one
\* there now, and the one it saw when that was deleted or written since
Behind(call) ==
    (IF call.this \in DOMAIN heap THEN {heap[call.this]} ELSE {})
    \cup (IF Raced(call) THEN {call.seen} ELSE {})

\* the rest of detectFromBuffer: the conversion, detect and toJson on the
\* fields of the object; undefined when the object was deleted or written
\* meanwhile: a crash, or the result on either object
DetectFinish(t) ==
    /\ calls[t].pc = "reading"
    /\ \/ /\ Raced(calls[t])
          /\ ret' = Crash("yolo_detect_buffer")
       \/ \E d \in Behind(calls[t]) :
             /\ d.m_session # NoSession
             /\ \E run \in {r \in Runs(calls[t].this, calls[t].this :> d) :
                                r.conf_threshold = Q \div 4 /\ r.tie = "stable"} :
                   ret' = [YoloDetect(calls[t].this,
                                      calls[t].this :> [d EXCEPT !.m_initialized = TRUE],
                                      "yolo_detect_buffer",
                                      BufferImage(WideFrame[1], WideFrame[2], "converts"),
                                      run)
                           EXCEPT !.frame = <<WideFrame[1], WideFrame[2],
                                              WideFrame[1] * BGRAChannels>>]
    /\ calls' = [calls EXCEPT ![t] = IdleCall]
    /\ UNCHANGED <<g_detector, heap, hist>>

\* the models and label lists of the two threads
RaceModelFiles == {"yolox.onnx", "custom.onnx"}
RaceLabelLists == {<<<<"a">>>>}

NextRace ==
    \/ \E t \in Threads :
          /\ MayRun(calls, t)
          /\ \E model_path \in RaceModelFiles : yolo_init(model_path, ModelAt(model_path))
    \/ \E t \in Threads : MayRun(calls, t) /\ yolo_release
    \/ \E t \in Threads :
          /\ MayRun(calls, t)
          /\ \E labels \in RaceLabelLists : yolo_set_classes(labels)
    \/ \E t \in Threads : DetectCall(t)
    \/ \E t \in Threads : DetectCheck(t)
    \/ \E t \in Threads : DetectFinish(t)

SpecRace == Init /\ [][NextRace]_vars

-----------------------------------------------------------------------------
\* Properties of the lifecycle (Spec)

\* the detector g_detector points at
Current == heap[g_detector]

\* C1: a decode call made before any yolo_init returns the NOT_INITIALIZED
\* error, reads nothing of its input and changes no detector state.
C1_DecodeBeforeInit ==
    [][ (ret'.op \in DecodeOps /\ ~hist.ever_init) =>
          /\ ret'.code = "NOT_INITIALIZED"
          /\ ~ret'.touched
          /\ ~ret'.pipeline
          /\ ret'.detections = <<>>
          /\ g_detector' = g_detector
          /\ heap' = heap ]_vars

C1_Witness ==
    /\ ret.op \in DecodeOps
    /\ ~hist.ever_init
    /\ ret.code = "NOT_INITIALIZED"

\* C2: a decode call runs the pipeline only when a detector exists whose most
\* recent yolo_init succeeded and which has not been released since; in every
\* other state it answers NOT_INITIALIZED; and yolo_is_initialized answers 1
\* exactly in the states where a decode would run.
C2_PipelineOnlyWhenInitialized ==
    /\ (YoloIsInitialized(g_detector, heap) = 1) <=> hist.ready
    /\ hist.ready => hist.present
    /\ hist.present <=> (g_detector # NULL)
    /\ ret.op = "yolo_is_initialized" => ((ret.value = 1) <=> hist.ready)
    /\ ret.op \in DecodeOps =>
          /\ ret.pipeline => hist.ready
          /\ ~hist.ready <=> (ret.code = "NOT_INITIALIZED")
          /\ (hist.ready /\ ret.op # "yolo_detect_path") => ret.pipeline
          /\ (hist.ready /\ ret.code = "OK") => ret.pipeline

C2_Witness ==
    /\ ret.op \in DecodeOps
    /\ g_detector # NULL
    /\ ~hist.ready
    /\ ret.code = "NOT_INITIALIZED"
    /\ ~ret.pipeline

\* the detector a fresh process has after yolo_init(model_path)
FreshInit(model_path) ==
    DetectorInit(YoloDetectorCtor, model_path, ModelAt(model_path)).det

\* C3: a successful yolo_init leaves the state a first yolo_init of the same
\* model leaves, whatever came before it: the class table is the 80-entry
\* default again and the input and output names are those of the model, once each.
C3_InitReplacesState ==
    (ret.op = "yolo_init" /\ ret.value = 1) =>
        /\ g_detector # NULL
        /\ DOMAIN heap = {g_detector}
        /\ hist.first # <<>>
        /\ hist.first[1] = ret.model_path => Current = hist.first[2]
        /\ Current = FreshInit(ret.model_path)
        /\ Current.m_class_names = COCO_CLASSES
        /\ Len(Current.m_class_names) = 80
        /\ Current.m_input_names_str =
              [i \in 1..Len(ret.inputs) |-> ret.inputs[i].name]
        /\ Current.m_output_names_str =
              [i \in 1..Len(ret.outputs) |-> ret.outputs[i].name]

\* a second successful yolo_init, made on a detector whose table had been replaced
C3_Witness ==
    /\ ret.op = "yolo_init"
    /\ ret.value = 1
    /\ ret.freed = 1
    /\ ret.old.m_initialized
    /\ ret.old.m_class_names # COCO_CLASSES
    /\ ret.old.m_model_type # Current.m_model_type
    /\ hist.first # <<>>
    /\ hist.first[1] = ret.model_path
    /\ Current.m_class_names = COCO_CLASSES

\* C4: yolo_release with no detector present changes nothing and frees
\* nothing; after any yolo_release there is no detector, nothing is left on
\* the heap and yolo_is_initialized answers 0.
C4_ReleaseIsSafe ==
    [][ ret'.op = "yolo_release" =>
          /\ g_detector' = NULL
          /\ heap' = <<>>
          /\ YoloIsInitialized(g_detector', heap') = 0
          /\ ~hist'.present /\ ~hist'.ready
          /\ ret'.freed = (IF g_detector # NULL THEN 1 ELSE 0)
          /\ g_detector = NULL => (g_detector' = g_detector /\ heap' = heap) ]_vars

\* a yolo_release that found the detector already released
C4_Witness ==
    /\ ret.op = "yolo_release"
    /\ hist.ever_init
    /\ ret.freed = 0
    /\ g_detector = NULL
    /\ heap = <<>>

\* C5: yolo_set_classes with a list that yields no class names (the empty
\* array, or one with empty labels only) is ignored: the class table, the
\* class count and every other field of the detector stay as they were.
C5_EmptyListIgnored ==
    [][ ( /\ ret'.op = "yolo_set_classes"
          /\ \A i \in 1..Len(ret'.labels) : ret'.labels[i] = <<>> ) =>
          /\ g_detector' = g_detector
          /\ heap' = heap ]_vars

\* the empty array given to a detector whose table had been replaced
C5_Witness ==
    /\ ret.op = "yolo_set_classes"
    /\ ret.labels = <<>>
    /\ g_detector # NULL
    /\ Current.m_class_names # COCO_CLASSES

\* C6: after yolo_set_classes with a non-empty list the class table is exactly
\* that list, in order and of the same length, lists with an empty-string
\* label included.
C6_TableIsTheList ==
    (ret.op = "yolo_set_classes" /\ ret.labels # <<>> /\ g_detector # NULL) =>
        Current.m_class_names = ret.labels

\* C10: after a successful yolo_init no decode call, yolo_set_classes or
\* yolo_is_initialized changes the variant or the input dimensions.
C10_VariantAndInputFixed ==
    [][ ( /\ ret'.op \in DecodeOps \cup {"yolo_set_classes", "yolo_is_initialized"}
          /\ hist.ready
          /\ g_detector # NULL ) =>
          /\ g_detector' = g_detector
          /\ heap'[g_detector'].m_model_type = Current.m_model_type
          /\ heap'[g_detector'].m_input_width = Current.m_input_width
          /\ heap'[g_detector'].m_input_height = Current.m_input_height
          /\ heap'[g_detector'].m_initialized ]_vars

\* a class table replaced on a detector of a variant and input size other
\* than the defaults
C10_Witness ==
    /\ ret.op = "yolo_set_classes"
    /\ hist.ready
    /\ g_detector # NULL
    /\ Current.m_class_names = ret.labels
    /\ ret.labels # <<>>
    /\ Current.m_model_type = "PPYOLOE"
    /\ Current.m_input_width # DefaultInputSize

-----------------------------------------------------------------------------
\* Properties of the decoders (SpecDecode)

\* C7: every detection whose class_id is at or beyond the end of the class
\* table is labelled "class_<id>", every other one with the table entry of its
\* class_id, and the table is never read out of range.
C7_LabelOfClassId ==
    (ret.op \in DecodeOps /\ g_detector # NULL) =>
        \A i \in 1..Len(ret.detections) :
            LET det   == ret.detections[i]
                table == Current.m_class_names
            IN  /\ ~det.bad_table_read
                /\ det.class_id >= Len(table) =>
                      det.class_name = <<"class_", ToString(det.class_id)>>
                /\ det.class_id < Len(table) =>
                      /\ det.class_id >= 0
                      /\ det.class_name = table[det.class_id + 1]

\* one decode giving a label of each kind from a table set by yolo_set_classes
C7_Witness ==
    /\ ret.op \in DecodeOps
    /\ g_detector # NULL
    /\ Current.m_class_names # COCO_CLASSES
    /\ \E i \in 1..Len(ret.detections) :
          /\ ret.detections[i].class_id >= Len(Current.m_class_names)
          /\ ret.detections[i].class_name =
                <<"class_", ToString(ret.detections[i].class_id)>>
    /\ \E i \in 1..Len(ret.detections) :
          /\ ret.detections[i].class_id < Len(Current.m_class_names)
          /\ ret.detections[i].class_name =
                Current.m_class_names[ret.detections[i].class_id + 1]

-----------------------------------------------------------------------------
\* Properties of VariantDetector (SpecVD)

\* an input whose name contains "scale"
HasScaleInput == \E i \in 1..Len(ret.inputs) : \E k \in 1..Len(ret.inputs[i].name) :
                     ret.inputs[i].name[k] = "scale"

\* the detector before and after output k of the scan
BeforeOutput(k) == IF k = 1 THEN ret.before ELSE ret.scan[k - 1]
AfterOutput(k) == ret.scan[k]

\* the two non-batch dimensions of a shape; one the shape lacks counts as 0
NonBatch1(shape) == IF Len(shape) >= 2 THEN shape[2] ELSE 0
NonBatch2(shape) == IF Len(shape) >= 3 THEN shape[3] ELSE 0

\* the outputs VariantDetector classifies: of rank 2 or more, and met before
\* the variant became PPYOLOE
Classified(k) ==
    /\ ~HasScaleInput
    /\ Len(ret.outputs[k].shape) >= 2
    /\ BeforeOutput(k).m_model_type # "PPYOLOE"

\* none of the fixed widths 6, 85, 84 in either non-batch dimension
Generic(shape) ==
    /\ NonBatch1(shape) \notin {6, 85, 84}
    /\ NonBatch2(shape) \notin {6, 85, 84}

Is(d, model_type, num_classes) ==
    d.m_model_type = model_type /\ d.m_num_classes = num_classes

SameVariant(d, e) ==
    d.m_model_type = e.m_model_type /\ d.m_num_classes = e.m_num_classes

OnlyOutput(shape) == Len(ret.outputs) = 1 /\ ret.outputs[1].shape = shape

\* C8: VariantDetector's table, in this order of precedence: an input named
\* "scale" gives PPYOLOE with 80 classes; else a non-batch dimension of 6 gives
\* PPYOLOE; else one of 85 gives YOLOX with 80 classes; else one of 84 gives
\* YOLOV8 with 80 classes. (1,8400,85) is YOLOX/80, (1,84,8400) YOLOV8/80,
\* (1,300,6) PPYOLOE.
C8_VariantTable ==
    (ret.op = "yolo_init" /\ ret.value = 1) =>
        /\ HasScaleInput => Is(Current, "PPYOLOE", 80)
        /\ Len(ret.scan) = Len(ret.outputs)
        /\ ret.scan # <<>> => SameVariant(Current, ret.scan[Len(ret.scan)])
        /\ \A k \in 1..Len(ret.outputs) :
              LET d1 == NonBatch1(ret.outputs[k].shape)
                  d2 == NonBatch2(ret.outputs[k].shape)
              IN  Classified(k) =>
                    /\ (d1 = 6 \/ d2 = 6) => AfterOutput(k).m_model_type = "PPYOLOE"
                    /\ (d1 # 6 /\ d2 # 6 /\ (d1 = 85 \/ d2 = 85)) =>
                          Is(AfterOutput(k), "YOLOX", 80)
                    /\ (d1 # 6 /\ d2 # 6 /\ d1 # 85 /\ d2 # 85 /\ (d1 = 84 \/ d2 = 84)) =>
                          Is(AfterOutput(k), "YOLOV8", 80)
        /\ ~HasScaleInput =>
              /\ OnlyOutput(<<1, 8400, 85>>) => Is(Current, "YOLOX", 80)
              /\ OnlyOutput(<<1, 84, 8400>>) => Is(Current, "YOLOV8", 80)
              /\ OnlyOutput(<<1, 300, 6>>) => Current.m_model_type = "PPYOLOE"

\* a shape with both 85 and 84, where the precedence decides
C8_Witness ==
    /\ ret.op = "yolo_init"
    /\ ret.value = 1
    /\ ~HasScaleInput
    /\ OnlyOutput(<<1, 84, 85>>)
    /\ Is(Current, "YOLOX", 80)

\* C9 as written: for a generic shape f is the smaller of the two non-batch
\* dimensions; f > 5 gives YOLOX with f - 5 classes and every other f gives
\* YOLOV8 with f - 4 classes.
C9_GenericShapeAsWritten ==
    (ret.op = "yolo_init" /\ ret.value = 1) =>
        \A k \in 1..Len(ret.outputs) :
            LET shape == ret.outputs[k].shape
                f     == Min(NonBatch1(shape), NonBatch2(shape))
            IN  (Classified(k) /\ Generic(shape)) =>
                    IF f > 5 THEN Is(AfterOutput(k), "YOLOX", f - 5)
                    ELSE Is(AfterOutput(k), "YOLOV8", f - 4)

\* C9: for a generic shape f is the smaller of the two non-batch dimensions,
\* a missing one counting as 0; f > 5 gives YOLOX with f - 5 classes,
\* 0 < f <= 5 gives YOLOV8 with f - 4 classes, and f <= 0 leaves the variant
\* and the class count as they were.
C9_GenericShape ==
    (ret.op = "yolo_init" /\ ret.value = 1) =>
        \A k \in 1..Len(ret.outputs) :
            LET shape == ret.outputs[k].shape
                f     == Min(NonBatch1(shape), NonBatch2(shape))
            IN  (Classified(k) /\ Generic(shape)) =>
                    /\ f > 5 => Is(AfterOutput(k), "YOLOX", f - 5)
                    /\ (0 < f /\ f <= 5) => Is(AfterOutput(k), "YOLOV8", f - 4)
                    /\ f <= 0 => SameVariant(AfterOutput(k), BeforeOutput(k))

\* a generic shape with a dynamic dimension: the defaults stay
C9_Witness ==
    /\ ret.op = "yolo_init"
    /\ ret.value = 1
    /\ ~HasScaleInput
    /\ OnlyOutput(<<1, -1, 7>>)
    /\ Is(Current, "YOLOX", 80)

-----------------------------------------------------------------------------
\* Properties of the detections returned (SpecDecode)

\* C11: every detection a decode call returns has an ordered box inside the
\* image: 0 <= x1 <= x2 <= image_width and 0 <= y1 <= y2 <= image_height.
C11_BoxInsideImage ==
    ret.op \in DecodeOps =>
        \A i \in 1..Len(ret.detections) :
            LET det == ret.detections[i]
            IN  /\ 0 <= det.x1 /\ det.x1 <= det.x2 /\ det.x2 <= ret.image_width * Q
                /\ 0 <= det.y1 /\ det.y1 <= det.y2 /\ det.y2 <= ret.image_height * Q

\* C12: every detection a decode call returns has 0 <= confidence <= 1.
C12_ConfidenceInUnitInterval ==
    ret.op \in DecodeOps =>
        \A i \in 1..Len(ret.detections) :
            /\ 0 <= ret.detections[i].confidence
            /\ ret.detections[i].confidence <= Q

\* a decode call that reached the Run call of the engine
ReachedEngine == ret.op \in DecodeOps /\ ret.ran

\* C15: on an initialized detector, a failure of the engine or an output whose
\* rank no variant recognizes (fewer than 2 dimensions) ends the decode call
\* with a well-formed result of no detections, and with no undefined read.
C15_AnomalyGivesEmptyResult ==
    (ReachedEngine /\ (ret.engine_throws \/ Len(ret.out.shape) < 2)) =>
        /\ ret.code = "OK"
        /\ ret.detections = <<>>
        /\ ~ret.oob

\* a frame of non-positive width or height, or of a row stride below the
\* pixels of a row
MalformedFrame ==
    /\ ret.op \in {"yolo_detect_buffer", "yolo_detect_yuv"}
    /\ ret.frame # <<>>
    /\ (ret.frame[1] <= 0 \/ ret.frame[2] <= 0 \/ ret.frame[3] < ret.frame[1])

\* C16: a packed-buffer or YUV decode call on a ready detector with a frame of
\* non-positive width or height, or of a row stride smaller than the pixels of
\* a row, fails with the InvalidBuffer error before any pixel is read.
C16_MalformedFrameRejected ==
    (MalformedFrame /\ hist.ready) =>
        /\ ret.code = "INVALID_BUFFER"
        /\ ~ret.touched

\* C17: a decode call on a PreDecodedPreNMS detector of a model with a scale
\* input passes the engine one value per input name, in the order of the names,
\* the scale tensor [input_h/src_h, input_w/src_w] for the scale input and the
\* image tensor for every other.
C17_ScaleAndImageBound ==
    (ReachedEngine /\ Current.m_model_type = "PPYOLOE"
        /\ \E i \in 1..Len(Current.m_input_names_str) :
              "scale" \in {Current.m_input_names_str[i][k] :
                              k \in 1..Len(Current.m_input_names_str[i])}) =>
        LET names == Current.m_input_names_str
        IN  /\ Len(ret.fed) = Len(names)
            /\ \A k \in 1..Len(ret.fed) :
                  /\ ret.fed[k].name = names[k]
                  /\ ret.fed[k].tensor = "scale"
                        <=> "scale" \in {names[k][j] : j \in 1..Len(names[k])}
            /\ ret.scale_factor =
                  <<[num |-> Current.m_input_height, den |-> ret.image_height],
                    [num |-> Current.m_input_width, den |-> ret.image_width]>>

\* the cells of every stride in raster order over input_w / stride columns and
\* input_h / stride rows
RasterCells(input_w, input_h, stride) ==
    [k \in 1..((input_w \div stride) * (input_h \div stride)) |->
        [x |-> (k - 1) % (input_w \div stride),
         y |-> (k - 1) \div (input_w \div stride),
         s |-> stride]]

RasterGrid(input_w, input_h) ==
    RasterCells(input_w, input_h, 8) \o RasterCells(input_w, input_h, 16)
        \o RasterCells(input_w, input_h, 32)

\* C19: when a GridObjectness detector decodes the output of a model whose
\* boxes are the cells of strides 8, 16 and 32 over its input resolution, the
\* grid list it generates is that raster scan and has one entry per box.
C19_GridEntryPerBox ==
    (ReachedEngine /\ ~ret.engine_throws /\ Current.m_model_type = "YOLOX"
        /\ Len(ret.out.shape) >= 3
        /\ ret.out.shape[2] =
              Len(RasterGrid(Current.m_input_width, Current.m_input_height))) =>
        /\ Len(Grids(Current)) = ret.out.shape[2]
        /\ Grids(Current) = RasterGrid(Current.m_input_width, Current.m_input_height)

\* the rows of a PreDecodedPreNMS output: N rows of 6 consecutive values, N the
\* axis that is not 6
RowAxis(t) ==
    LET d1 == IF Len(t.shape) = 2 THEN t.shape[1] ELSE t.shape[2]
        d2 == IF Len(t.shape) = 2 THEN t.shape[2] ELSE t.shape[3]
    IN  IF d2 = 6 THEN d1 ELSE d2

HasAxisOfSix(t) ==
    /\ Len(t.shape) >= 2
    /\ \/ (IF Len(t.shape) = 2 THEN t.shape[1] ELSE t.shape[2]) = 6
       \/ (IF Len(t.shape) = 2 THEN t.shape[2] ELSE t.shape[3]) = 6

RowOf(t, i) == [k \in 1..6 |-> t.data[6 * (i - 1) + k]]

\* the class id of a row: the integer of its first value
RowClassId(row) == IF row[1] >= 0 THEN row[1] \div Q ELSE -((-row[1]) \div Q)

\* a coordinate limited to 0..limit
Limited(v, limit) == IF v < 0 THEN 0 ELSE IF v > limit * Q THEN limit * Q ELSE v

\* the rows that pass: score at least the threshold, class id not negative
PassingRows(t, conf_threshold) ==
    {i \in 1..RowAxis(t) : RowOf(t, i)[2] >= conf_threshold /\ RowClassId(RowOf(t, i)) >= 0}

\* a decode call of a PreDecodedPreNMS detector, for an image of positive
\* width and height, on an output with an axis of 6
PreDecodedDecode ==
    /\ ReachedEngine /\ ~ret.engine_throws
    /\ ret.image_width > 0 /\ ret.image_height > 0
    /\ Current.m_model_type = "PPYOLOE"
    /\ HasAxisOfSix(ret.out)

-----------------------------------------------------------------------------
\* Properties of nms (SpecNms)

\* intersection over union of two boxes above threshold / Q
OverlapArea(a, b) ==
    LET left   == IF a.x1 > b.x1 THEN a.x1 ELSE b.x1
        right  == IF a.x2 < b.x2 THEN a.x2 ELSE b.x2
        top    == IF a.y1 > b.y1 THEN a.y1 ELSE b.y1
        bottom == IF a.y2 < b.y2 THEN a.y2 ELSE b.y2
    IN  IF right > left /\ bottom > top THEN (right - left) * (bottom - top) ELSE 0

BoxArea(a) == (a.x2 - a.x1) * (a.y2 - a.y1)

IoUAbove(a, b, threshold) ==
    LET inter == OverlapArea(a, b)
        union == BoxArea(a) + BoxArea(b) - inter
    IN  IF union > 0 THEN Q * inter > threshold * union ELSE 0 > threshold

NonIncreasing(dets) ==
    \A i \in 1..(Len(dets) - 1) : dets[i].confidence >= dets[i + 1].confidence

\* how many times x is in the list
Occurrences(dets, x) == Cardinality({i \in 1..Len(dets) : dets[i] = x})

Elements(dets) == {dets[i] : i \in 1..Len(dets)}

\* C13: in the result of nms no two kept detections of the same class have an
\* IoU above the threshold.
C13_KeptDoNotOverlap ==
    ret.op = "nms" =>
        \A i, j \in 1..Len(ret.detections) :
            (i # j /\ ret.detections[i].class_id = ret.detections[j].class_id) =>
                ~IoUAbove(ret.detections[i], ret.detections[j], ret.iou_threshold)

\* nms dropped a candidate and kept two of one class that overlap, by no more
\* than the threshold
C13_Witness ==
    /\ ret.op = "nms"
    /\ Len(ret.detections) < Len(ret.candidates)
    /\ \E i, j \in 1..Len(ret.detections) :
          /\ i # j
          /\ ret.detections[i].class_id = ret.detections[j].class_id
          /\ OverlapArea(ret.detections[i], ret.detections[j]) > 0

\* C14: nms applied to the result of nms, with the same threshold, returns the
\* same detections: each as many times as before, nothing removed, still in
\* non-increasing order of confidence.
C14_NmsIdempotent ==
    ret.op = "nms_again" =>
        /\ Len(ret.again) = Len(ret.detections)
        /\ \A x \in Elements(ret.detections) \cup Elements(ret.again) :
              Occurrences(ret.again, x) = Occurrences(ret.detections, x)
        /\ NonIncreasing(ret.again)

\* the first nms dropped a candidate and the second was given two or more
C14_Witness ==
    /\ ret.op = "nms_again"
    /\ Len(ret.detections) < Len(ret.candidates)
    /\ Len(ret.detections) >= 2

\* the orders of 1..n
Orders(n) == {f \in [1..n -> 1..n] : \A i, j \in 1..n : i # j => f[i] # f[j]}

\* the candidates the greedy pass keeps of the list visited: those no kept
\* earlier candidate of the class has an IoU above the threshold with
GreedyKept(visited, threshold) ==
    CHOOSE kept \in SUBSET (1..Len(visited)) :
        \A k \in 1..Len(visited) :
            k \in kept <=>
                \A j \in kept :
                    (j < k /\ visited[j].class_id = visited[k].class_id) =>
                        ~IoUAbove(visited[j], visited[k], threshold)

\* the entries of kept, in the order of the list
Selected(visited, kept) ==
    LET nth(m) == CHOOSE k \in kept : Cardinality({e \in kept : e <= k}) = m
    IN  [m \in 1..Cardinality(kept) |-> visited[nth(m)]]

\* C18: the result of nms is what the greedy pass keeps of the candidates
\* visited in some non-increasing order of confidence: a candidate is kept
\* exactly when no earlier kept candidate of its class has an IoU with it
\* above the threshold; the result is in that order.
C18_GreedyReference ==
    ret.op = "nms" =>
        /\ NonIncreasing(ret.detections)
        /\ \A x \in Elements(ret.detections) :
              Occurrences(ret.detections, x) <= Occurrences(ret.candidates, x)
        /\ \E order \in Orders(Len(ret.candidates)) :
              LET visited == [k \in 1..Len(ret.candidates) |-> ret.candidates[order[k]]]
              IN  /\ NonIncreasing(visited)
                  /\ ret.detections = Selected(visited, GreedyKept(visited, ret.iou_threshold))

\* a candidate was suppressed by one of its class while two overlapping
\* candidates of different classes were both kept
C18_Witness ==
    /\ ret.op = "nms"
    /\ Len(ret.detections) < Len(ret.candidates)
    /\ \E i, j \in 1..Len(ret.detections) :
          /\ ret.detections[i].class_id # ret.detections[j].class_id
          /\ IoUAbove(ret.detections[i], ret.detections[j], ret.iou_threshold)

-----------------------------------------------------------------------------
\* Properties of a failed yolo_init (Spec)

\* the last yolo_init failed and no yolo_release followed it
AfterFailedInit == hist.present /\ ~hist.ready

\* the labels of a list that are not the empty string, in order
NamedLabels(labels) == SelectSeq(labels, LAMBDA label : label # <<>>)

\* C22: a yolo_init that returns 0 destroys the detector that was there and
\* leaves a detector object that is not initialized; from then until a
\* yolo_init succeeds (or yolo_release), yolo_is_initialized returns 0, every
\* decode call returns NOT_INITIALIZED without reading its input, and
\* yolo_set_classes with a named label replaces the table of that object.
C22_FailedInitUninitializes ==
    [][ /\ (ret'.op = "yolo_init" /\ ret'.value = 0) =>
              /\ g_detector' # NULL
              /\ DOMAIN heap' = {g_detector'}
              /\ ~heap'[g_detector'].m_initialized
              /\ g_detector # NULL => ret'.freed = 1
              /\ YoloIsInitialized(g_detector', heap') = 0
        /\ (AfterFailedInit /\ ret'.op = "yolo_is_initialized") => ret'.value = 0
        /\ (AfterFailedInit /\ ret'.op \in DecodeOps) =>
              /\ ret'.code = "NOT_INITIALIZED"
              /\ ~ret'.touched
              /\ ~ret'.pipeline
        /\ (AfterFailedInit /\ ret'.op = "yolo_set_classes"
                /\ NamedLabels(ret'.labels) # <<>>) =>
              /\ heap'[g_detector'].m_class_names = NamedLabels(ret'.labels)
              /\ heap'[g_detector'].m_num_classes = Len(NamedLabels(ret'.labels)) ]_vars

\* a decode call refused after a yolo_init that failed on a library that had
\* been initialized, the table of the new object replaced in between
C22_Witness ==
    /\ AfterFailedInit
    /\ hist.first # <<>>
    /\ ret.op \in DecodeOps
    /\ ret.code = "NOT_INITIALIZED"
    /\ g_detector # NULL
    /\ Current.m_class_names # COCO_CLASSES

-----------------------------------------------------------------------------
\* Properties of the class scan of GridObjectness (SpecDecode)

\* a decode call of a GridObjectness detector on an output of boxes by
\* features whose boxes all have a grid entry
GridObjectnessDecode ==
    /\ ReachedEngine /\ ~ret.engine_throws
    /\ Current.m_model_type = "YOLOX"
    /\ Len(ret.out.shape) >= 3
    /\ Len(Grids(Current)) >= ret.out.shape[2]

\* C23: whatever yolo_init and yolo_set_classes calls came before, a
\* GridObjectness decode compares, for each box, as many class scores as the
\* row has (the feature count minus 5), and reads nothing past the end of the
\* output tensor.
C23_ClassScanStaysInRow ==
    GridObjectnessDecode =>
        /\ Current.m_num_classes = ret.out.shape[3] - BoxAndObjFields
        /\ ~ret.oob

-----------------------------------------------------------------------------
\* Properties of the layout of GridObjectness (SpecDecode)

\* the two non-batch dimensions of an output of 3 dimensions
Axis1(t) == t.shape[2]
Axis2(t) == t.shape[3]

Smaller(a, b) == IF a < b THEN a ELSE b

\* a shape init classifies as GridObjectness: a dimension of 85, or the
\* smaller dimension above 5, no dimension being 6 (or, before the generic
\* rule, 84)
GridObjectnessShape(t) ==
    /\ Len(t.shape) = 3
    /\ Axis1(t) # 6 /\ Axis2(t) # 6
    /\ \/ Axis1(t) = 85 \/ Axis2(t) = 85
       \/ (Axis1(t) # 84 /\ Axis2(t) # 84 /\ Smaller(Axis1(t), Axis2(t)) > 5)

\* the dimension init took for the features of such a shape
FeatureAxis(t) ==
    IF Axis1(t) = 85 \/ Axis2(t) = 85 THEN 85 ELSE Smaller(Axis1(t), Axis2(t))

BoxAxis(t) ==
    IF FeatureAxis(t) = Axis2(t) THEN Axis1(t) ELSE Axis2(t)

\* C24: when a GridObjectness detector decodes an output of a shape init
\* classifies as GridObjectness, the row length of the decoder is the feature
\* dimension (5 + class count) and its box count the other dimension,
\* whichever axis holds the features.
C24_LayoutAgrees ==
    (ReachedEngine /\ ~ret.engine_throws /\ Current.m_model_type = "YOLOX"
        /\ GridObjectnessShape(ret.out)) =>
        LET dims == OutputDims(ret.out)
            layout == YOLOXLayout(dims.dim1, dims.dim2)
        IN  /\ layout.features = FeatureAxis(ret.out)
            /\ layout.num_boxes = BoxAxis(ret.out)


-----------------------------------------------------------------------------
\* Properties of two threads on the library (SpecRace)

\* thread t has passed the m_initialized test of a decode call and is reading
\* the object behind its pointer, which nobody deleted so far
Reading(t) ==
    /\ calls[t].pc = "reading"
    /\ ~calls[t].dangling
    /\ calls[t].this \in DOMAIN heap

\* a step of a call other than decode: no thread moves in its decode call
OtherCall(op) ==
    /\ ret'.op = op
    /\ ret' # ret
    /\ \A t \in Threads : calls'[t].pc = calls[t].pc

\* C21: nothing keeps another thread from calling yolo_release, yolo_init or
\* yolo_set_classes while a decode call has passed its initialized check and
\* is still reading the detector; when it does, yolo_release and yolo_init
\* delete the object being read and yolo_set_classes replaces its class table
\* and class count in place, the decode call still reading.
C21_UnsafeWithoutExclusion ==
    /\ [](\A t \in Threads : \A u \in Threads \ {t} :
            (Reading(t) /\ calls[u].pc = "idle") =>
               /\ ENABLED (MayRun(calls, u) /\ yolo_release)
               /\ ENABLED (MayRun(calls, u) /\ \E model_path \in RaceModelFiles :
                              yolo_init(model_path, ModelAt(model_path)))
               /\ ENABLED (MayRun(calls, u) /\ \E labels \in RaceLabelLists :
                              yolo_set_classes(labels)))
    /\ [][ \A t \in Threads :
             Reading(t) =>
               /\ (OtherCall("yolo_release") \/ OtherCall("yolo_init")) =>
                     /\ ret'.freed = 1
                     /\ calls'[t].pc = "reading"
                     /\ calls'[t].dangling
                     /\ calls'[t].this \in DOMAIN heap' => heap'[calls'[t].this] # calls[t].seen
                                                            \/ g_detector' = calls[t].this
               /\ (OtherCall("yolo_set_classes") /\ NamedLabels(ret'.labels) # <<>>) =>
                     /\ calls'[t].pc = "reading"
                     /\ heap'[calls[t].this].m_class_names = NamedLabels(ret'.labels)
                     /\ heap'[calls[t].this].m_num_classes = Len(NamedLabels(ret'.labels)) ]_vars

\* yolo_release has deleted the detector a decode call on the other thread is
\* reading
C21_Witness ==
    /\ ret.op = "yolo_release"
    /\ ret.freed = 1
    /\ \E t \in Threads :
          /\ calls[t].pc = "reading"
          /\ calls[t].checked = "live"
          /\ calls[t].dangling
          /\ calls[t].this \notin DOMAIN heap

====
